---- MODULE Spec2Model ----
(***************************************************************************)
(* A model of rmm's core2.py: the load-order sort (Sort.graph) and the     *)
(* mod-list codecs (ModListV1Format, ModListV2Format, ModListV3Format,     *)
(* ModListStreamer), and the ModList sequence.                             *)
(*                                                                         *)
(* Strings.  Sort.graph only compares package ids for equality, so in the  *)
(* sort a package id is an atomic string.  The codecs take strings apart   *)
(* (split, join, int, strip), so in the codecs a string is a sequence of   *)
(* one-character strings.                                                  *)
(*                                                                         *)
(* Optional values.  Python's None is the empty tuple and a present value  *)
(* x is the one-element tuple <<x>>.                                       *)
(***************************************************************************)
EXTENDS Integers, Sequences, FiniteSets, TLC

VARIABLES
    mods,     \* the collection handed to the operation (a ModList's data)
    DG,       \* the nx.DiGraph built by Sort.graph
    sorted,   \* Sort.graph's local `sorted`: the list topological_sort gave
    text,     \* the text a codec parses / the file ModListStreamer wrote
    out,      \* the records a parse yielded, in order
    stdout,   \* what the operation printed, in order
    err,      \* the exception the operation ended with, or NoError
    pc,       \* which operation is due
    call      \* the last ModList call: its name, arguments and the data before it

vars == <<mods, DG, sorted, text, out, stdout, err, pc, call>>

None == <<>>
Some(x) == <<x>>

\* Elements of a sequence, as a set.
Range(s) == {s[i] : i \in 1..Len(s)}

Contains(s, x) == \E i \in 1..Len(s) : s[i] = x

(***************************************************************************)
(* Mod (core2.py 64-91).  path, author, name, versions and                 *)
(* workshop_managed are read by none of the operations modelled here.      *)
(***************************************************************************)
Mod(packageid, before, after, incompatible, steamid, ignored, repo_url) ==
    [packageid |-> packageid, before |-> before, after |-> after,
     incompatible |-> incompatible, steamid |-> steamid,
     ignored |-> ignored, repo_url |-> repo_url]

\* Python truthiness of an Optional[list]: None and [] are both false.
Truthy(optlist) == optlist # None /\ optlist[1] # <<>>

InModsAlways(ms, x) == TRUE

\* `x in mods`: Sequence.__contains__ compares each element with Mod.__eq__,
\* which compares the record's packageid with the string.
InMods(ms, x) == \E i \in 1..Len(ms) : ms[i].packageid = x

(***************************************************************************)
(* nx.DiGraph.  Node and adjacency dictionaries keep insertion order, and  *)
(* topological_sort walks them in that order: nodes is the node dict's key *)
(* order, edges the order in which distinct edges were first added (the    *)
(* successors of u, in adjacency order, are the targets of u's edges in    *)
(* this order).                                                            *)
(***************************************************************************)
EmptyDiGraph == [nodes |-> <<>>, edges |-> <<>>]

AddNode(G, n) ==
    IF Contains(G.nodes, n) THEN G ELSE [G EXCEPT !.nodes = Append(@, n)]

add_edge(G, u, v) ==
    LET G1 == AddNode(AddNode(G, u), v)
    IN  IF Contains(G1.edges, <<u, v>>) THEN G1
        ELSE [G1 EXCEPT !.edges = Append(@, <<u, v>>)]

ignore == <<"brrainz.harmony", "UnlimitedHugs.HugsLib">>

\* The inner `for a in m.after` loop, from index i on.
RECURSIVE AfterLoop(_, _, _, _, _)
AfterLoop(G, ms, m, lst, i) ==
    IF i > Len(lst) THEN G
    ELSE LET a == lst[i]
             G1 == IF InMods(ms, a)
                      /\ ~Contains(ignore, a) /\ ~Contains(ignore, m.packageid)
                   THEN add_edge(G, a, m.packageid)
                   ELSE G
         IN  AfterLoop(G1, ms, m, lst, i + 1)

\* The inner `for b in m.before` loop, from index i on.
RECURSIVE BeforeLoop(_, _, _, _, _)
BeforeLoop(G, ms, m, lst, i) ==
    IF i > Len(lst) THEN G
    ELSE LET b == lst[i]
             G1 == IF InMods(ms, b)
                      /\ ~Contains(ignore, b) /\ ~Contains(ignore, m.packageid)
                   THEN add_edge(G, m.packageid, b)
                   ELSE G
         IN  BeforeLoop(G1, ms, m, lst, i + 1)

\* The `for m in mods` loop, from index i on.
RECURSIVE BuildGraph(_, _, _)
BuildGraph(G, ms, i) ==
    IF i > Len(ms) THEN G
    ELSE LET m == ms[i]
             G1 == IF Truthy(m.after) THEN AfterLoop(G, ms, m, m.after[1], 1) ELSE G
             G2 == IF Truthy(m.before) THEN BeforeLoop(G1, ms, m, m.before[1], 1) ELSE G1
         IN  BuildGraph(G2, ms, i + 1)

(***************************************************************************)
(* nx.topological_sort(DG), as list(...) consumes it (core2.py 621).  The  *)
(* library is not pinned, and its two published algorithms order ties      *)
(* differently, so both are modelled and the operation may run either:     *)
(*   "generations"  Kahn's algorithm by generations (networkx >= 2.6);     *)
(*   "stack"        Kahn's algorithm popping a stack (networkx < 2.6).     *)
(* Both start from in_degree in node order, walk a node's successors in    *)
(* adjacency order, and raise NetworkXUnfeasible when a node is left with  *)
(* a positive in-degree.  The result is [ok, order].                       *)
(***************************************************************************)
NxImpls == {"generations", "stack"}

InDegree(G, v) == Cardinality({i \in 1..Len(G.edges) : G.edges[i][2] = v})

\* G.neighbors(u): the successors of u in adjacency order.
RECURSIVE Neighbors(_, _, _)
Neighbors(G, u, i) ==
    IF i > Len(G.edges) THEN <<>>
    ELSE IF G.edges[i][1] = u
         THEN <<G.edges[i][2]>> \o Neighbors(G, u, i + 1)
         ELSE Neighbors(G, u, i + 1)

\* zero_indegree = [v for v, d in G.in_degree() if d == 0]
RECURSIVE ZeroIndegree(_, _)
ZeroIndegree(G, i) ==
    IF i > Len(G.nodes) THEN <<>>
    ELSE IF InDegree(G, G.nodes[i]) = 0
         THEN <<G.nodes[i]>> \o ZeroIndegree(G, i + 1)
         ELSE ZeroIndegree(G, i + 1)

ReadyOneEarly(indeg, child) == indeg[child] - 1 \in {0, 1}

\* A child becomes ready when the decrement brings its in-degree to zero.
Ready(indeg, child) == indeg[child] - 1 = 0

\* `for child in G.neighbors(node)`: decrement, collect the children that
\* became ready onto the end of zero.  Returns [indeg, zero].
RECURSIVE VisitChildren(_, _, _, _)
VisitChildren(children, i, indeg, zero) ==
    IF i > Len(children) THEN [indeg |-> indeg, zero |-> zero]
    ELSE LET child == children[i]
             indeg1 == [indeg EXCEPT ![child] = @ - 1]
         IN  VisitChildren(children, i + 1, indeg1,
                           IF Ready(indeg, child) THEN Append(zero, child) ELSE zero)

\* `for node in this_generation`, from index i on.
RECURSIVE VisitGeneration(_, _, _, _, _)
VisitGeneration(G, gen, i, indeg, zero) ==
    IF i > Len(gen) THEN [indeg |-> indeg, zero |-> zero]
    ELSE LET r == VisitChildren(Neighbors(G, gen[i], 1), 1, indeg, zero)
         IN  VisitGeneration(G, gen, i + 1, r.indeg, r.zero)

\* `while zero_indegree` of topological_generations, yields concatenated.
RECURSIVE Generations(_, _, _, _)
Generations(G, zero, indeg, order) ==
    IF zero = <<>>
    THEN [ok |-> \A v \in Range(G.nodes) : indeg[v] = 0, order |-> order]
    ELSE LET r == VisitGeneration(G, zero, 1, indeg, <<>>)
         IN  Generations(G, r.zero, r.indeg, order \o zero)

\* `while zero_indegree: node = zero_indegree.pop()` of the older algorithm.
RECURSIVE StackSort(_, _, _, _)
StackSort(G, zero, indeg, order) ==
    IF zero = <<>>
    THEN [ok |-> \A v \in Range(G.nodes) : indeg[v] = 0, order |-> order]
    ELSE LET node == zero[Len(zero)]
             rest == SubSeq(zero, 1, Len(zero) - 1)
             r == VisitChildren(Neighbors(G, node, 1), 1, indeg, rest)
         IN  StackSort(G, r.zero, r.indeg, Append(order, node))

topological_sort(G, impl) ==
    LET indeg == [v \in Range(G.nodes) |-> InDegree(G, v)]
        zero == ZeroIndegree(G, 1)
    IN  IF impl = "generations"
        THEN Generations(G, zero, indeg, <<>>)
        ELSE StackSort(G, zero, indeg, <<>>)

(***************************************************************************)
(* Sort.graph(mods) (core2.py 587-625), the whole call: build DG, print    *)
(* the heading, sort, print the order.  Drawing (spring_layout, draw,      *)
(* gca, margins, show) changes nothing the model keeps, and the imports    *)
(* are taken to resolve.  On a cycle                                       *)
(* list(nx.topological_sort(DG)) raises NetworkXUnfeasible; nothing in     *)
(* Sort.graph catches it, so the call ends with it after the heading.      *)
(***************************************************************************)
\* An exception: its type and the graph nodes its arguments name.
NoError == [type |-> "none", nodes |-> {}]

\* raise nx.NetworkXUnfeasible("Graph contains a cycle or graph changed during
\* iteration"): the only argument is this fixed message.
NetworkXUnfeasible == [type |-> "NetworkXUnfeasible", nodes |-> {}]

graph ==
    /\ pc = "graph"
    /\ \E impl \in NxImpls :
         LET G == BuildGraph(EmptyDiGraph, mods, 1)
             r == topological_sort(G, impl)
         IN  /\ DG' = G
             /\ sorted' = IF r.ok THEN r.order ELSE <<>>
             /\ err' = IF r.ok THEN NoError ELSE NetworkXUnfeasible
             /\ stdout' = IF r.ok THEN <<"topological sort:">> \o r.order
                          ELSE <<"topological sort:">>
    /\ pc' = "done"
    /\ UNCHANGED <<mods, text, out, call>>

(***************************************************************************)
(* Collections for the sort.                                               *)
(***************************************************************************)
MaxMods == 3
MaxGraphMods == 2

SortIds == {"a", "b", "c"}
GraphIds == {"a", "b", "brrainz.harmony"}

\* A record with no relation, or one `before` entry, or one `after` entry.
SortMods ==
    {Mod(p, None, None, None, None, FALSE, None) : p \in SortIds}
    \cup {Mod(p, Some(<<x>>), None, None, None, FALSE, None) : p \in SortIds, x \in SortIds}
    \cup {Mod(p, None, Some(<<x>>), None, None, FALSE, None) : p \in SortIds, x \in SortIds}

\* As SortMods, over ids that include an ignore-set member, and also: empty
\* lists instead of None, one `incompatible` entry, the ignored flag.
GraphMods ==
    {Mod(p, None, None, None, None, g, None) : p \in GraphIds, g \in BOOLEAN}
    \cup {Mod(p, Some(<<>>), Some(<<>>), Some(<<>>), None, g, None) :
            p \in GraphIds, g \in BOOLEAN}
    \cup {Mod(p, Some(<<x>>), None, None, None, g, None) :
            p \in GraphIds, x \in GraphIds, g \in BOOLEAN}
    \cup {Mod(p, None, Some(<<x>>), None, None, g, None) :
            p \in GraphIds, x \in GraphIds, g \in BOOLEAN}
    \cup {Mod(p, None, None, Some(<<x>>), None, g, None) :
            p \in GraphIds, x \in GraphIds, g \in BOOLEAN}

SeqsUpTo(S, n) == UNION {[1..k -> S] : k \in 0..n}

\* No ModList call yet.
NoCall == [op |-> "none", i |-> 0, x |-> <<>>, data |-> <<>>]

InitCommon ==
    /\ call = NoCall
    /\ DG = EmptyDiGraph
    /\ sorted = <<>>
    /\ out = <<>>
    /\ stdout = <<>>
    /\ err = NoError

InitSort ==
    /\ mods \in SeqsUpTo(SortMods, MaxMods)
    /\ text = <<>>
    /\ pc = "graph"
    /\ InitCommon

InitGraph ==
    /\ mods \in SeqsUpTo(GraphMods, MaxGraphMods)
    /\ text = <<>>
    /\ pc = "graph"
    /\ InitCommon

NextSort == graph

SpecSort == InitSort /\ [][NextSort]_vars

SpecGraph == InitGraph /\ [][NextSort]_vars

(***************************************************************************)
(* Strings of the codecs: sequences of one-character strings.              *)
(***************************************************************************)
NL == "\n"

\* s[i..] starts with sep.
StartsAt(s, i, sep) ==
    /\ i + Len(sep) - 1 <= Len(s)
    /\ SubSeq(s, i, i + Len(sep) - 1) = sep

\* str.split(sep, maxsplit): left to right, at most maxsplit cuts (-1: any
\* number); always at least one part.
RECURSIVE Split(_, _, _)
Split(s, sep, maxsplit) ==
    LET hits == {i \in 1..Len(s) : StartsAt(s, i, sep)}
    IN  IF maxsplit = 0 \/ hits = {} THEN <<s>>
        ELSE LET k == CHOOSE i \in hits : \A j \in hits : i <= j
             IN  <<SubSeq(s, 1, k - 1)>>
                 \o Split(SubSeq(s, k + Len(sep), Len(s)), sep, maxsplit - 1)

\* sep.join(parts)
RECURSIVE Join(_, _)
Join(parts, sep) ==
    IF parts = <<>> THEN <<>>
    ELSE IF Len(parts) = 1 THEN parts[1]
    ELSE parts[1] \o sep \o Join(Tail(parts), sep)

Whitespace == {" ", "\n", "\r", "\t"}

\* str.strip()
RECURSIVE Strip(_)
Strip(s) ==
    IF s = <<>> THEN s
    ELSE IF s[1] \in Whitespace THEN Strip(Tail(s))
    ELSE IF s[Len(s)] \in Whitespace THEN Strip(SubSeq(s, 1, Len(s) - 1))
    ELSE s

Digits == <<"0", "1", "2", "3", "4", "5", "6", "7", "8", "9">>

IsDigit(c) == Contains(Digits, c)

DigitValue(c) == (CHOOSE i \in 1..Len(Digits) : Digits[i] = c) - 1

\* Whether int(s) returns (otherwise it raises ValueError): surrounding
\* whitespace is dropped and decimal digits must remain.  Signs and
\* underscores are in none of the alphabets used here.
IsInt(s) ==
    LET t == Strip(s)
    IN  t # <<>> /\ \A i \in 1..Len(t) : IsDigit(t[i])

RECURSIVE DecimalValue(_)
DecimalValue(t) ==
    IF t = <<>> THEN 0
    ELSE 10 * DecimalValue(SubSeq(t, 1, Len(t) - 1)) + DigitValue(t[Len(t)])

\* int(s), where IsInt(s).
IntOf(s) == DecimalValue(Strip(s))

\* str(n) of an int n >= 0.
RECURSIVE IntStr(_)
IntStr(n) ==
    IF n < 10 THEN <<Digits[n + 1]>>
    ELSE Append(IntStr(n \div 10), Digits[(n % 10) + 1])

\* str(x) of an Optional[int]: str(None) is "None".
Str(optint) == IF optint = None THEN <<"N", "o", "n", "e">> ELSE IntStr(optint[1])

\* ModStub(steamid) (core2.py 167-169): Mod("", steamid=steamid).
ModStub(steamid) == Mod(<<>>, None, None, None, Some(steamid), FALSE, None)

\* The Mod the V2 and V3 parsers build: `parsed[REPO_URL] if not "" else
\* None` is always parsed[REPO_URL], because not "" is True.
ParsedMod(packageid, steamid, repo_url) ==
    Mod(packageid, None, None, None, Some(steamid), FALSE, Some(repo_url))

\* What a generator gave before it ended: the records yielded, the lines
\* printed, and the exception that ended it (NoError at end of input).
Parsed(o, p, e) == [out |-> o, stdout |-> p, err |-> e]

IndexError == [type |-> "IndexError", nodes |-> {}]
TypeError == [type |-> "TypeError", nodes |-> {}]

(***************************************************************************)
(* ModListV1Format.parse (core2.py 321-332).                               *)
(***************************************************************************)
V1ReportsAlways(line) == TRUE

\* `if line:` guards the diagnostic.
V1Reports(line) == line # <<>>

\* line.split("#", 1)
V1Split(line) == Split(line, <<"#">>, 1)

RECURSIVE V1Lines(_, _, _)
V1Lines(lines, i, acc) ==
    IF i > Len(lines) THEN acc
    ELSE LET line == lines[i]
             parsed == V1Split(line)
         IN  IF IsInt(parsed[1])
             THEN V1Lines(lines, i + 1,
                          [acc EXCEPT !.out = Append(@, ModStub(IntOf(parsed[1])))])
             ELSE IF V1Reports(line)
             THEN V1Lines(lines, i + 1, [acc EXCEPT !.stdout = Append(@, line)])
             ELSE V1Lines(lines, i + 1, acc)

V1Parse(t) == V1Lines(Split(t, <<NL>>, -1), 1, Parsed(<<>>, <<>>, NoError))

(***************************************************************************)
(* ModListV2Format.parse (core2.py 287-300).  `for line in text` iterates  *)
(* a str, so each `line` is one character of the text.  IndexError is not  *)
(* caught: it ends the generator and reaches the caller.                   *)
(***************************************************************************)
SEPERATOR == <<":", ":">>

RECURSIVE V2Chars(_, _, _)
V2Chars(t, i, acc) ==
    IF i > Len(t) THEN acc
    ELSE LET line == <<t[i]>>
             parsed == Split(line, SEPERATOR, -1)
         IN  IF parsed[1] = <<>> THEN V2Chars(t, i + 1, acc)
             ELSE IF Len(parsed) < 2 THEN [acc EXCEPT !.err = IndexError]
             ELSE IF ~IsInt(parsed[2]) THEN V2Chars(t, i + 1, acc)
             ELSE IF Len(parsed) < 3 THEN [acc EXCEPT !.err = IndexError]
             ELSE V2Chars(t, i + 1,
                          [acc EXCEPT !.out =
                              Append(@, ParsedMod(parsed[1], IntOf(parsed[2]), parsed[3]))])

V2Parse(t) == V2Chars(t, 1, Parsed(<<>>, <<>>, NoError))

(***************************************************************************)
(* ModListV3Format.parse (core2.py 246-258).  csv.reader over the lines:   *)
(* the alphabets used here hold no quote character and no carriage         *)
(* return, and on such lines the reader gives [] for an empty line and the *)
(* comma-separated fields otherwise.                                       *)
(***************************************************************************)
CsvRow(line) == IF line = <<>> THEN <<>> ELSE Split(line, <<",">>, -1)

\* The row raises neither IndexError (parsed[0], parsed[1], parsed[2]) nor
\* ValueError (int(parsed[1])).
V3Accepts(parsed) == Len(parsed) >= 3 /\ IsInt(parsed[2])

RECURSIVE V3Rows(_, _, _)
V3Rows(lines, i, acc) ==
    IF i > Len(lines) THEN acc
    ELSE LET parsed == CsvRow(lines[i])
         IN  IF V3Accepts(parsed)
             THEN V3Rows(lines, i + 1,
                         [acc EXCEPT !.out =
                             Append(@, ParsedMod(parsed[1], IntOf(parsed[2]), parsed[3]))])
             ELSE V3Rows(lines, i + 1, [acc EXCEPT !.stdout = Append(@, parsed)])

V3Parse(t) == V3Rows(Split(t, <<NL>>, -1), 1, Parsed(<<>>, <<>>, NoError))

(***************************************************************************)
(* The parse operations, as ModListStreamer.read runs them on the text it  *)
(* read (core2.py 346-354): [m for m in serializer.parse(text)].           *)
(***************************************************************************)
Read(r, donePc) ==
    /\ out' = r.out
    /\ stdout' = r.stdout
    /\ err' = r.err
    /\ pc' = donePc
    /\ UNCHANGED <<mods, DG, sorted, text, call>>

parseV1 ==
    /\ pc = "parse"
    /\ Read(V1Parse(text), "V1.parsed")

parseV2 ==
    /\ pc \in {"parse", "V2.written"}
    /\ Read(V2Parse(text), "V2.parsed")

parseV3 ==
    /\ pc \in {"parse", "V3.written"}
    /\ Read(V3Parse(text), "V3.parsed")

(***************************************************************************)
(* Serialization.  `x if not None else ""` is always x, because not None   *)
(* is True.                                                                *)
(***************************************************************************)
\* ModListV2Format.format (core2.py 307-315): SEPERATOR.join([packageid,
\* str(steamid), repo_url]); join raises TypeError on a None item.
\* Returns [ok, line].
V2Format(mod) ==
    IF mod.repo_url = None THEN [ok |-> FALSE, line |-> <<>>]
    ELSE [ok |-> TRUE,
          line |-> Join(<<mod.packageid, Str(mod.steamid), mod.repo_url[1]>>, SEPERATOR)]

\* ModListV3Format.format and serialize (core2.py 260-277): writerow of
\* [packageid, str(steamid), repo_url], the row popped and stripped.  The
\* writer writes None as an empty field and ends the row with "\r\n"; it
\* quotes no field of the alphabets used here.
V3Format(mod) ==
    LET repo == IF mod.repo_url = None THEN <<>> ELSE mod.repo_url[1]
        row == Join(<<mod.packageid, Str(mod.steamid), repo>>, <<",">>) \o <<"\r", NL>>
    IN  [ok |-> TRUE, line |-> Strip(row)]

\* ModListStreamer.write (core2.py 357-364): f.write(line + "\n") for each
\* line the serializer yields; an exception of the serializer other than
\* OSError leaves the lines written so far and reaches the caller.
RECURSIVE WriteLines(_, _, _, _)
WriteLines(ms, i, codec, file) ==
    IF i > Len(ms) THEN [text |-> file, err |-> NoError]
    ELSE LET f == IF codec = "V2" THEN V2Format(ms[i]) ELSE V3Format(ms[i])
         IN  IF f.ok THEN WriteLines(ms, i + 1, codec, file \o f.line \o <<NL>>)
             ELSE [text |-> file, err |-> TypeError]

Write(codec, donePc) ==
    LET w == WriteLines(mods, 1, codec, <<>>)
    IN  /\ text' = w.text
        /\ err' = w.err
        /\ pc' = donePc
        /\ UNCHANGED <<mods, DG, sorted, out, stdout, call>>

writeV2 ==
    /\ pc = "write"
    /\ Write("V2", "V2.written")

writeV3 ==
    /\ pc = "write"
    /\ Write("V3", "V3.written")

(***************************************************************************)
(* Inputs of the codecs.                                                   *)
(***************************************************************************)
MaxTextLen == 5
MaxRecords == 2

Alphabet == {"1", "a", "#", ",", " ", NL}

\* Fields without delimiter characters; a record may lack steamid or
\* repo_url.
PackageIdStrings == {<<"a">>, <<"a", "b">>}
SteamIds == {None, Some(1), Some(12)}
RepoUrls == {None, Some(<<"u">>)}

CodecMods ==
    {Mod(p, None, None, None, n, FALSE, u) :
        p \in PackageIdStrings, n \in SteamIds, u \in RepoUrls}

InitParse ==
    /\ text \in SeqsUpTo(Alphabet, MaxTextLen)
    /\ mods = <<>>
    /\ pc = "parse"
    /\ InitCommon

NextParse == parseV1 \/ parseV2 \/ parseV3

SpecParse == InitParse /\ [][NextParse]_vars

InitRoundTrip ==
    /\ mods \in SeqsUpTo(CodecMods, MaxRecords)
    /\ text = <<>>
    /\ pc = "write"
    /\ InitCommon

NextRoundTrip == writeV2 \/ writeV3 \/ parseV2 \/ parseV3

SpecRoundTrip == InitRoundTrip /\ [][NextRoundTrip]_vars

(***************************************************************************)
(* ModList (core2.py 175-199): a MutableSequence over self.data.  Python   *)
(* indexes from 0, sequences here from 1: index i is position i + 1.       *)
(* Indexes are taken from 0..len; negative indexes are not modelled.  A    *)
(* call that raises leaves the list as it was, and its caller may go on    *)
(* using the list.                                                         *)
(***************************************************************************)
\* self.data[i] = x of a list: replaces the element at i; IndexError ("list
\* assignment index out of range") when i is not an index of the list.
\* Returns [data, err].
SetItem(data, i, x) ==
    IF i < Len(data)
    THEN [data |-> [data EXCEPT ![i + 1] = x], err |-> NoError]
    ELSE [data |-> data, err |-> IndexError]

\* ModList.insert (core2.py 195-196): self.data[i] = x.
Insert(data, i, x) == SetItem(data, i, x)

\* del self.data[i] (core2.py 189-190).
DelItem(data, i) ==
    IF i < Len(data)
    THEN [data |-> SubSeq(data, 1, i) \o SubSeq(data, i + 2, Len(data)), err |-> NoError]
    ELSE [data |-> data, err |-> IndexError]

\* One ModList call, with its result r.
ListCall(op, i, x, r) ==
    /\ pc = "list"
    /\ call' = [op |-> op, i |-> i, x |-> x, data |-> mods]
    /\ mods' = r.data
    /\ err' = r.err
    /\ UNCHANGED <<DG, sorted, text, out, stdout, pc>>

MaxListLen == 3

ListIds == {"a", "b", "c"}

ListMods == {Mod(p, None, None, None, None, FALSE, None) : p \in ListIds}

insert ==
    \E i \in 0..Len(mods), x \in ListMods :
        ListCall("insert", i, x, Insert(mods, i, x))

\* MutableSequence.append(x), which ModList inherits: self.insert(len(self), x).
append ==
    \E x \in ListMods :
        ListCall("append", Len(mods), x, Insert(mods, Len(mods), x))

delete ==
    \E i \in 0..Len(mods) :
        ListCall("delete", i, <<>>, DelItem(mods, i))

\* ModList(data) of any list of up to MaxListLen records.
InitModList ==
    /\ mods \in SeqsUpTo(ListMods, MaxListLen)
    /\ text = <<>>
    /\ pc = "list"
    /\ InitCommon

NextModList == insert \/ append \/ delete

SpecModList == InitModList /\ [][NextModList]_vars

\* The list without the element at index i.
Without(data, i) == SubSeq(data, 1, i) \o SubSeq(data, i + 2, Len(data))

\* C11: after insert(i, x) with 0 <= i <= len the call has succeeded, the
\* list is one longer, x is at index i and the records present before are
\* all there in their order; after append(x) the call has succeeded and the
\* list is the list before it with x added at the end.
InsertGrowsList ==
    /\ call.op = "insert" =>
         /\ err = NoError
         /\ Len(mods) = Len(call.data) + 1
         /\ mods[call.i + 1] = call.x
         /\ Without(mods, call.i) = call.data
    /\ call.op = "append" =>
         /\ err = NoError
         /\ mods = Append(call.data, call.x)

(***************************************************************************)
(* Properties of Sort.graph.                                               *)
(***************************************************************************)
Done == pc = "done"
Succeeded == Done /\ err = NoError

Edges(G) == Range(G.edges)
Nodes(G) == Range(G.nodes)

\* Position of n in a sequence that contains it.
Pos(s, n) == CHOOSE i \in 1..Len(s) : s[i] = n

NoDuplicates(s) == \A i, j \in 1..Len(s) : s[i] = s[j] => i = j

\* The entries of an Optional[list], as a set.
Entries(optlist) == IF optlist = None THEN {} ELSE Range(optlist[1])

PackageIds(ms) == {ms[i].packageid : i \in 1..Len(ms)}

\* Nodes reachable from the set S by one or more edges.
RECURSIVE ReachFrom(_, _)
ReachFrom(G, S) ==
    LET T == S \cup {e[2] : e \in {f \in Edges(G) : f[1] \in S}}
    IN  IF T = S THEN S ELSE ReachFrom(G, T)

Successors(G, n) == {e[2] : e \in {f \in Edges(G) : f[1] = n}}

\* The nodes that lie on at least one cycle.
CycleNodes(G) == {n \in Nodes(G) : n \in ReachFrom(G, Successors(G, n))}

\* C1: whenever the sort succeeds, every edge u -> v of the built graph has u
\* strictly before v in the order, and no package id is in the order twice.
TopologicalValidity ==
    Succeeded =>
        /\ \A e \in Edges(DG) :
             /\ Contains(sorted, e[1])
             /\ Contains(sorted, e[2])
             /\ Pos(sorted, e[1]) < Pos(sorted, e[2])
        /\ NoDuplicates(sorted)

\* C1's case: a successful sort of a graph with a chain u -> v -> w.
TopologicalValidityWitness ==
    /\ Succeeded
    /\ \E e, f \in Edges(DG) : e[2] = f[1] /\ e[1] # f[2]

\* C2: the node set is exactly the distinct package ids of the records that
\* are not flagged ignored and not in the ignore-set, related or not.
NodeSetIsMembers ==
    Done => Nodes(DG) = {mods[i].packageid : i \in
                            {j \in 1..Len(mods) :
                                /\ ~mods[j].ignored
                                /\ ~Contains(ignore, mods[j].packageid)}}

\* The edges the relations of a collection call for.
WantedEdges(ms) ==
    LET M == Range(ms)
    IN  {e \in PackageIds(ms) \X PackageIds(ms) :
           /\ ~Contains(ignore, e[1])
           /\ ~Contains(ignore, e[2])
           /\ \E m \in M :
                \/ m.packageid = e[1] /\ e[2] \in Entries(m.before)
                \/ m.packageid = e[2] /\ e[1] \in Entries(m.after)}

\* Every before/after entry of the collection names no record of it.
OnlyAbsentReferences(ms) ==
    \A i \in 1..Len(ms) :
        (Entries(ms[i].before) \cup Entries(ms[i].after)) \cap PackageIds(ms) = {}

\* C3: the edge set is exactly (m, b) for b in m.before and (a, m) for a in
\* m.after, kept only when the referenced id is a record's packageId and
\* neither endpoint is in the ignore-set (so incompatible entries and absent
\* references give no edge); a collection whose references are all absent
\* gives no edge and its sort succeeds.
EdgeSetIsRelations ==
    Done =>
        /\ Edges(DG) = WantedEdges(mods)
        /\ OnlyAbsentReferences(mods) => Edges(DG) = {} /\ err = NoError

\* C3's case: a graph with an edge, built from a collection that also holds
\* a before/after reference to an id no record of it has.
EdgeSetIsRelationsWitness ==
    /\ Done
    /\ Edges(DG) # {}
    /\ \E i \in 1..Len(mods) :
         (Entries(mods[i].before) \cup Entries(mods[i].after)) \ PackageIds(mods) # {}

\* C4: whenever the built graph has a cycle, the call ends in a
\* DependencyCycle failure that names exactly the nodes lying on a cycle.
CycleIsReported ==
    (Done /\ CycleNodes(DG) # {}) =>
        /\ err.type = "DependencyCycle"
        /\ err.nodes = CycleNodes(DG)

\* The nodes of G not yet in `order` whose predecessors are all in it.
Available(G, order) ==
    {n \in Nodes(G) \ Range(order) :
        \A e \in Edges(G) : e[2] = n => Contains(order, e[1])}

\* Index of the first record of the collection with this package id.
FirstIndex(ms, n) == CHOOSE i \in 1..Len(ms) :
    /\ ms[i].packageid = n
    /\ \A j \in 1..(i - 1) : ms[j].packageid # n

\* The insertion-order-greedy topological order of an acyclic graph.
RECURSIVE Greedy(_, _, _)
Greedy(G, ms, order) ==
    LET avail == Available(G, order)
    IN  IF avail = {} THEN order
        ELSE LET n == CHOOSE x \in avail :
                        \A y \in avail : FirstIndex(ms, x) <= FirstIndex(ms, y)
             IN  Greedy(G, ms, Append(order, n))

\* C5: the order of a successful sort is the insertion-order-greedy
\* topological order: each node emitted is, among the nodes whose
\* predecessors were all emitted, the one earliest in the collection.
TieBreakIsInsertionOrder ==
    Succeeded => sorted = Greedy(DG, mods, <<>>)

(***************************************************************************)
(* Properties of the codecs.                                               *)
(***************************************************************************)
Lines(t) == Split(t, <<NL>>, -1)

Triples(rs) == [i \in 1..Len(rs) |-> <<rs[i].packageid, rs[i].steamid, rs[i].repo_url>>]

Delimiters == {":", ",", NL, "\r", "\""}

NoDelimiter(str) == \A i \in 1..Len(str) : str[i] \notin Delimiters

NoDelimiters(ms) ==
    \A i \in 1..Len(ms) :
        /\ NoDelimiter(ms[i].packageid)
        /\ ms[i].repo_url # None => NoDelimiter(ms[i].repo_url[1])

\* Every record has a steamId and a repoUrl (absent fields are C8's subject).
AllPresent(ms) ==
    \A i \in 1..Len(ms) : ms[i].steamid # None /\ ms[i].repo_url # None

\* C6: writing a collection whose fields hold no delimiter with the V2 (V3)
\* serializer and parsing the written text with the V2 (V3) parser gives
\* records with the same packageId/steamId/repoUrl triples, in order.
\* Stated for collections with every field present, its plainest case.
RoundTripReproduces ==
    (pc \in {"V2.parsed", "V3.parsed"} /\ NoDelimiters(mods) /\ AllPresent(mods)) =>
        /\ err = NoError
        /\ Triples(out) = Triples(mods)

NonEmptyLines(t) == SelectSeq(Lines(t), LAMBDA l : l # <<>>)

\* C7: a parse of any text by any of the three codecs ends without an
\* exception, and every non-empty line of the text is accounted for by a
\* yielded record or by a diagnostic.
ParseNeverRaises ==
    pc \in {"V1.parsed", "V2.parsed", "V3.parsed"} =>
        /\ err = NoError
        /\ Len(out) + Len(stdout) >= Len(NonEmptyLines(text))

\* The line the contract asks for: an absent field is the empty string.
ContractLine(m, sep) ==
    Join(<<m.packageid,
           IF m.steamid = None THEN <<>> ELSE IntStr(m.steamid[1]),
           IF m.repo_url = None THEN <<>> ELSE m.repo_url[1]>>, sep)

RECURSIVE ContractFile(_, _)
ContractFile(ms, sep) ==
    IF ms = <<>> THEN <<>>
    ELSE ContractLine(Head(ms), sep) \o <<NL>> \o ContractFile(Tail(ms), sep)

\* C8: the V2 and V3 serializers emit one line per record, in order, with
\* an absent steamId or repoUrl as the empty string; they do not fail.
AbsentFieldIsEmpty ==
    /\ pc = "V2.written" => err = NoError /\ text = ContractFile(mods, SEPERATOR)
    /\ pc = "V3.written" => err = NoError /\ text = ContractFile(mods, <<",">>)

Rows(t) == [i \in 1..Len(Lines(t)) |-> CsvRow(Lines(t)[i])]

ThreeColumns(row) == Len(row) = 3 /\ IsInt(row[2])

RowMods(rows) == [i \in 1..Len(rows) |-> ParsedMod(rows[i][1], IntOf(rows[i][2]), rows[i][3])]

\* C9: the V3 parser yields a record for exactly the rows that have three
\* columns and an integer steamId column; every other row gets a diagnostic.
V3YieldsThreeColumnRows ==
    pc = "V3.parsed" =>
        /\ out = RowMods(SelectSeq(Rows(text), ThreeColumns))
        /\ stdout = SelectSeq(Rows(text), LAMBDA r : ~ThreeColumns(r))

\* The part of a line before its first '#' (the whole line without one).
Left(line) ==
    LET hashes == {i \in 1..Len(line) : line[i] = "#"}
    IN  IF hashes = {} THEN line
        ELSE SubSeq(line, 1, (CHOOSE i \in hashes : \A j \in hashes : i <= j) - 1)

LeftIsInt(line) == IsInt(Left(line))

Stubs(lines) == [i \in 1..Len(lines) |-> ModStub(IntOf(Left(lines[i])))]

====
